---- MODULE Spec2Model ----
(***************************************************************************)
(* Model of gomaasapi's Client (src/client.go): the two client factories,  *)
(* the four verb methods Get/Post/Put/Delete and the shared                *)
(* dispatchRequest routine.                                                *)
(*                                                                         *)
(*  - url.Values is a function from a set of keys to sequences of values.  *)
(*  - *url.URL and url.Values arguments are references: the caller's       *)
(*    objects live in the heaps `uris` and `params`, and a call names the  *)
(*    object it is passed.                                                 *)
(*  - Spec        : sequential verb calls on one Client, one action per    *)
(*                  verb method (the whole method, dispatch included).     *)
(*  - FactorySpec : the client factories applied to bounded inputs.        *)
(*  - ConcSpec    : goroutines running Get concurrently on one Client,     *)
(*                  one step per access to shared memory.                  *)
(***************************************************************************)
EXTENDS Integers, Sequences, FiniteSets, TLC

VARIABLES
    made,      \* the last factory call: its arguments and what it returned
    client,    \* the *Client the factory returned (<<>>: nil), which the verb calls go through
    params,    \* heap of the caller's url.Values objects
    uris,      \* heap of the caller's *url.URL objects
    params0,   \* the url.Values objects as the caller built them
    uris0,     \* the *url.URL objects as the caller built them
    call,      \* Spec: the last verb call, its arguments, effects and result
    gor,       \* ConcSpec: the goroutines' positions and locals
    crashed    \* ConcSpec: the runtime aborted on a concurrent map access

vars == <<made, client, params, uris, params0, uris0, call, gor, crashed>>

----------------------------------------------------------------------------
(* Bounds *)

\* longest list of values stored under one key of a url.Values
MaxVals == 2
\* longest apiKey string given to NewAuthenticatedClient
MaxKeyLen == 4
\* number of goroutines of ConcSpec
NumGoroutines == 2

\* Go's nil, where a string or a reference is expected (a nil body, a nil
\* url.Values). A pointer that may be nil (*Client, *http.Request,
\* *http.Response) is a sequence: <<>> for nil, <<x>> for a pointer to x.
Nil == "<nil>"

----------------------------------------------------------------------------
(* Strings of the factories: sequences of one-character strings *)

KeyChars == {"a", "b", ":"}

RECURSIVE SeqsUpTo(_, _)
SeqsUpTo(S, n) ==
    IF n = 0 THEN {<<>>}
    ELSE LET shorter == SeqsUpTo(S, n - 1)
         IN  shorter \cup {Append(s, x) : s \in {t \in shorter : Len(t) = n - 1}, x \in S}

ApiKeys == SeqsUpTo(KeyChars, MaxKeyLen)

\* the base addresses handed to the factories
BaseStrings == {"http://maas/api/", ":bad"}

\* url.Parse on the base addresses above: ":bad" has an empty scheme before
\* its colon ("missing protocol scheme"), the other parses.
UrlParse(s) ==
    CASE s = "http://maas/api/" ->
            [err |-> "nil",
             url |-> [Scheme |-> "http", Host |-> "maas", Path |-> "/api/", RawQuery |-> ""]]
      [] OTHER -> [err |-> "ParseError", url |-> <<>>]

\* strings.Split(s, ":")
RECURSIVE SplitAcc(_, _, _)
SplitAcc(s, cur, acc) ==
    IF s = <<>> THEN Append(acc, cur)
    ELSE IF Head(s) = ":" THEN SplitAcc(Tail(s), <<>>, Append(acc, cur))
    ELSE SplitAcc(Tail(s), Append(cur, Head(s)), acc)

Split(s) == SplitAcc(s, <<>>, <<>>)

----------------------------------------------------------------------------
(* Signers *)

anonSigner == [kind |-> "anonSigner"]

\* NewPLAINTEXTOAuthSigner(token, realm): a signer holding the token and the
\* realm; it fails on a structurally invalid token (a field is missing).
NewPLAINTEXTOAuthSigner(token, realm) ==
    IF DOMAIN token # {"ConsumerKey", "ConsumerSecret", "TokenKey", "TokenSecret"}
    THEN [err |-> "InvalidToken", signer |-> <<>>]
    ELSE [err |-> "nil",
          signer |-> [kind |-> "PLAINTEXT", token |-> token, realm |-> realm]]

\* the results a signer's OAuthSign can report: the anonymous signer returns
\* nil; the credentialed signer reports success or failure.
SignOutcomes(signer) ==
    IF signer.kind = "anonSigner" THEN {TRUE} ELSE {TRUE, FALSE}

\* the Authorization value of the PLAINTEXT scheme
AuthorizationHeader(signer) ==
    [oauth_consumer_key |-> signer.token.ConsumerKey,
     oauth_token        |-> signer.token.TokenKey,
     oauth_signature_method |-> "PLAINTEXT",
     oauth_signature    |-> <<signer.token.ConsumerSecret, "%26", signer.token.TokenSecret>>,
     oauth_version      |-> "1.0",
     realm              |-> signer.realm]

\* signer.OAuthSign(request) with result ok: the request as it is afterwards
OAuthSign(signer, request, ok) ==
    IF signer.kind = "anonSigner" \/ ~ok THEN request
    ELSE [request EXCEPT !.Authorization = <<AuthorizationHeader(signer)>>]

----------------------------------------------------------------------------
(* Client factories *)

NewAnonymousClient(BaseURL) ==
    LET parsed == UrlParse(BaseURL)
    IN  IF parsed.err # "nil"
        THEN [client |-> <<>>, err |-> parsed.err]
        ELSE [client |-> <<[Signer |-> anonSigner, BaseURL |-> parsed.url]>>, err |-> "nil"]

NewAuthenticatedClient_fewer(BaseURL, apiKey) ==
    LET elements == Split(apiKey)
    IN  IF Len(elements) < 3
        THEN [client |-> <<>>, err |-> "InvalidAPIKey"]
        ELSE LET token  == [ConsumerKey    |-> elements[1],
                            ConsumerSecret |-> <<>>,
                            TokenKey       |-> elements[2],
                            TokenSecret    |-> elements[3]]
                 made_s == NewPLAINTEXTOAuthSigner(token, "MAAS API")
                 parsed == UrlParse(BaseURL)
             IN  IF made_s.err # "nil" THEN [client |-> <<>>, err |-> made_s.err]
                 ELSE IF parsed.err # "nil" THEN [client |-> <<>>, err |-> parsed.err]
                 ELSE [client |-> <<[Signer |-> made_s.signer, BaseURL |-> parsed.url]>>,
                       err |-> "nil"]

NewAuthenticatedClient(BaseURL, apiKey) ==
    LET elements == Split(apiKey)
    IN  IF Len(elements) # 3
        THEN [client |-> <<>>, err |-> "InvalidAPIKey"]
        ELSE LET token  == [ConsumerKey    |-> elements[1],
                            ConsumerSecret |-> <<>>,
                            TokenKey       |-> elements[2],
                            TokenSecret    |-> elements[3]]
                 made_s == NewPLAINTEXTOAuthSigner(token, "MAAS API")
                 parsed == UrlParse(BaseURL)
             IN  IF made_s.err # "nil" THEN [client |-> <<>>, err |-> made_s.err]
                 ELSE IF parsed.err # "nil" THEN [client |-> <<>>, err |-> parsed.err]
                 ELSE [client |-> <<[Signer |-> made_s.signer, BaseURL |-> parsed.url]>>,
                       err |-> "nil"]

----------------------------------------------------------------------------
(* url.Values *)

Keys == {"k", "op"}

\* the keys in the order sort.Strings gives them
KeyOrder == <<"k", "op">>

\* the lists the caller stores under each key: any list of up to MaxVals
\* values under "op", one value under "k"
ListsOf(key) == IF key = "op" THEN SeqsUpTo({"", "x"}, MaxVals) ELSE {<<"a b">>}

AllValues ==
    UNION { {v \in [K -> UNION {ListsOf(key) : key \in Keys}] :
                \A key \in K : v[key] \in ListsOf(key)}
            : K \in SUBSET Keys }

\* a nil url.Values reads as the empty map
EmptyValues == [key \in {} |-> <<>>]

\* Values.Get(key): the first value under key, "" when there is none
ValuesGet(v, key) ==
    IF key \in DOMAIN v /\ Len(v[key]) > 0 THEN v[key][1]
    ELSE ""

\* Values.Set(key, value): replaces whatever is under key
ValuesSet(v, key, value) ==
    [x \in (DOMAIN v) \cup {key} |-> IF x = key THEN <<value>> ELSE v[x]]

\* url.QueryEscape on the strings of the model
QueryEscape(s) ==
    CASE s = "a b" -> "a+b"
      [] OTHER -> s

RECURSIVE EncodeVals(_, _, _)
EncodeVals(key, vals, buf) ==
    IF vals = <<>> THEN buf
    ELSE EncodeVals(key, Tail(vals),
                    (IF buf = "" THEN "" ELSE buf \o "&")
                        \o QueryEscape(key) \o "=" \o QueryEscape(Head(vals)))

RECURSIVE EncodeKeys(_, _, _)
EncodeKeys(v, keys, buf) ==
    IF keys = <<>> THEN buf
    ELSE EncodeKeys(v, Tail(keys),
                    IF Head(keys) \in DOMAIN v
                    THEN EncodeVals(Head(keys), v[Head(keys)], buf)
                    ELSE buf)

\* Values.Encode(): "k=v&..." over the sorted keys
Encode(v) == EncodeKeys(v, KeyOrder, "")

----------------------------------------------------------------------------
(* url.URL *)

\* the resource URLs the caller passes: relative references, one of them
\* with a host that does not survive String() followed by url.Parse
URLSet ==
    { [Scheme |-> "", Host |-> "",    Path |-> "nodes/", RawQuery |-> "old=1"],
      [Scheme |-> "", Host |-> "a b", Path |-> "nodes/", RawQuery |-> ""] }

\* resolvePath on the paths of the model: every base path ends in "/", every
\* reference path is relative, and the result is rooted
ResolvePath(base, ref) ==
    LET full == IF ref = "" THEN base ELSE base \o ref
    IN  IF full = "" THEN ""
        ELSE IF full = "nodes/" THEN "/nodes/"
        ELSE full

\* URL.ResolveReference: a new URL, the reference is not written
ResolveReference(u, ref) ==
    LET scheme == IF ref.Scheme = "" THEN u.Scheme ELSE ref.Scheme
    IN  IF ref.Scheme # "" \/ ref.Host # ""
        THEN [Scheme |-> scheme, Host |-> ref.Host,
              Path |-> ResolvePath(ref.Path, ""), RawQuery |-> ref.RawQuery]
        ELSE [Scheme |-> scheme, Host |-> u.Host,
              Path |-> ResolvePath(u.Path, ref.Path),
              RawQuery |-> IF ref.Path = "" /\ ref.RawQuery = ""
                           THEN u.RawQuery ELSE ref.RawQuery]

\* client.GetURL(URI)
GetURL(c, URI) == ResolveReference(c.BaseURL, URI)

\* URL.String() on the URLs of the model
URLString(u) ==
    u.Scheme \o "://" \o (IF u.Host = "a b" THEN "a%20b" ELSE u.Host) \o u.Path
        \o (IF u.RawQuery = "" THEN "" ELSE "?" \o u.RawQuery)

\* http.NewRequest(method, u.String(), body): the string is parsed again, and
\* an escape in the host ("a%20b") is a parse error
NewRequest(method, u, body) ==
    IF u.Host = "a b"
    THEN [err |-> "NewRequest", request |-> <<>>]
    ELSE [err |-> "nil",
          request |-> <<[Method |-> method, URL |-> u, RequestURL |-> URLString(u),
                         Body |-> body, ContentType |-> Nil, Authorization |-> <<>>]>>]

----------------------------------------------------------------------------
(* The HTTP exchange *)

\* status codes a server answers with
Statuses == {199, 200, 299, 300}

\* what httpClient.Do and the read of the body can produce: a transport
\* error, or a response whose body is read whole or fails to be read
Exchanges ==
    {[transportErr |-> TRUE, StatusCode |-> 0, Body |-> Nil, readErr |-> FALSE]}
    \cup {[transportErr |-> FALSE, StatusCode |-> s, Body |-> "data", readErr |-> FALSE]
             : s \in Statuses}
    \cup {[transportErr |-> FALSE, StatusCode |-> 200, Body |-> "", readErr |-> FALSE],
          [transportErr |-> FALSE, StatusCode |-> 200, Body |-> "data", readErr |-> TRUE]}

\* response.StatusCode/100 == 2 (status codes are not negative)
StatusOK_below299(s) == s >= 200 /\ s < 299

StatusOK(s) == s \div 100 = 2

\* the outcome of a call that returns before dispatchRequest
NoDispatch(err) ==
    [request |-> <<>>, events |-> <<>>, signed |-> "none", response |-> <<>>,
     body |-> Nil, err |-> err, respBody |-> "none", closed |-> FALSE]

\* dispatchRequest with the signer reporting ok and the exchange going as x.
\* events: the calls made on the signer, the transport and the body reader;
\* respBody: the response body as the call leaves it ("none": no response,
\* "open": not read to the end, "drained": read to the end); closed: whether
\* Close was called on it.
DispatchOutcome_retry(c, request, ok, x) ==
    LET req == OAuthSign(c.Signer, request, ok)
    IN  IF x.transportErr
        THEN [request |-> <<req>>, events |-> <<"sign", "do", "do">>, signed |-> IF ok THEN "ok" ELSE "failed",
              response |-> <<>>, body |-> Nil, err |-> "Transport",
              respBody |-> "none", closed |-> FALSE]
        ELSE IF x.readErr
        THEN [request |-> <<req>>, events |-> <<"sign", "do", "read">>, signed |-> IF ok THEN "ok" ELSE "failed",
              response |-> <<x>>, body |-> Nil, err |-> "ReadBody",
              respBody |-> "open", closed |-> FALSE]
        ELSE [request |-> <<req>>, events |-> <<"sign", "do", "read">>, signed |-> IF ok THEN "ok" ELSE "failed",
              response |-> <<x>>, body |-> x.Body,
              err |-> IF StatusOK(x.StatusCode) THEN "nil" ELSE "Status",
              respBody |-> "drained", closed |-> FALSE]

DispatchOutcome(c, request, ok, x) ==
    LET req == OAuthSign(c.Signer, request, ok)
    IN  IF x.transportErr
        THEN [request |-> <<req>>, events |-> <<"sign", "do">>, signed |-> IF ok THEN "ok" ELSE "failed",
              response |-> <<>>, body |-> Nil, err |-> "Transport",
              respBody |-> "none", closed |-> FALSE]
        ELSE IF x.readErr
        THEN [request |-> <<req>>, events |-> <<"sign", "do", "read">>, signed |-> IF ok THEN "ok" ELSE "failed",
              response |-> <<x>>, body |-> Nil, err |-> "ReadBody",
              respBody |-> "open", closed |-> FALSE]
        ELSE [request |-> <<req>>, events |-> <<"sign", "do", "read">>, signed |-> IF ok THEN "ok" ELSE "failed",
              response |-> <<x>>, body |-> x.Body,
              err |-> IF StatusOK(x.StatusCode) THEN "nil" ELSE "Status",
              respBody |-> "drained", closed |-> FALSE]

\* client.dispatchRequest(request): every outcome it can have
DispatchRequest(c, request) ==
    {DispatchOutcome(c, request, ok, x) : ok \in SignOutcomes(c.Signer), x \in Exchanges}

----------------------------------------------------------------------------
(* The verb methods *)

ParamIds == {"p1", "p2"}
UriIds == {"u1"}

\* the operation selectors the caller passes
Operations == {"", "list"}

\* the url.Values a call is passed: an object of the heap, or nil
ValuesAt(heap, p) == IF p = Nil THEN EmptyValues ELSE heap[p]

\* Get's test of the reserved parameter: parameters.Get("op") != ""
ReservedCheck_never(parameters) == FALSE

ReservedCheck(parameters) == ValuesGet(parameters, "op") # ""

\* what Get leaves in the caller's parameters: parameters.Set("op", operation)
\* when the operation is not empty
GetParameters_copy(parameters, operation) == parameters

GetParameters(parameters, operation) ==
    IF operation # "" THEN ValuesSet(parameters, "op", operation) ELSE parameters

\* the arguments of a verb call, with the objects they refer to as they are
\* when the call is made
Args(verb, u, operation, p) ==
    [verb |-> verb, uri |-> u, op |-> operation, params |-> p,
     paramsIn |-> ValuesAt(params, p), uriIn |-> uris[u]]

\* a call that ends in a run-time panic (a write to a nil map)
Panic == NoDispatch("panic")

Get(u, operation, p) ==
    LET parameters == ValuesAt(params, p)
        args       == Args("Get", u, operation, p)
    IN  /\ IF ReservedCheck(parameters)
           THEN /\ call' = args @@ NoDispatch("ReservedParameter")
                /\ UNCHANGED params
           ELSE IF operation # "" /\ p = Nil
           THEN /\ call' = args @@ Panic
                /\ UNCHANGED params
           ELSE LET set      == GetParameters(parameters, operation)
                    queryUrl == [GetURL(client[1], uris[u]) EXCEPT !.RawQuery = Encode(set)]
                    built    == NewRequest("GET", queryUrl, Nil)
                IN  /\ params' = IF p = Nil THEN params ELSE [params EXCEPT ![p] = set]
                    /\ IF built.err # "nil"
                       THEN call' = args @@ NoDispatch(built.err)
                       ELSE \E r \in DispatchRequest(client[1], built.request[1]) :
                                call' = args @@ r
        /\ UNCHANGED <<made, client, uris, params0, uris0, gor, crashed>>

\* nonIdempotentRequest(method, URI, parameters): every outcome it can have
NonIdempotentRequest(c, method, URI, parameters) ==
    LET URL   == GetURL(c, URI)
        built == NewRequest(method, URL, Encode(parameters))
    IN  IF built.err # "nil"
        THEN {NoDispatch(built.err)}
        ELSE DispatchRequest(c,
                 [built.request[1] EXCEPT !.ContentType = "application/x-www-form-urlencoded"])

\* the query Post writes: url.Values{"op": {operation}}.Encode()
PostQuery(operation) == Encode([key \in {"op"} |-> <<operation>>])

\* what Post leaves in the caller's URL
PostURI_copy(URI, operation) == URI

PostURI(URI, operation) == [URI EXCEPT !.RawQuery = PostQuery(operation)]

\* the parameters Post form-encodes into the body
PostParameters_withOp(parameters, operation) == ValuesSet(parameters, "op", operation)

PostParameters(parameters, operation) == parameters

Post(u, operation, p) ==
    LET args == Args("Post", u, operation, p)
        URI  == PostURI(uris[u], operation)
    IN  /\ uris' = [uris EXCEPT ![u] = URI]
        /\ \E r \in NonIdempotentRequest(client[1], "POST", URI,
                                         PostParameters(ValuesAt(params, p), operation)) :
               call' = args @@ r
        /\ UNCHANGED <<made, client, params, params0, uris0, gor, crashed>>

Put(u, p) ==
    LET args == Args("Put", u, "", p)
    IN  /\ \E r \in NonIdempotentRequest(client[1], "PUT", uris[u], ValuesAt(params, p)) :
               call' = args @@ r
        /\ UNCHANGED <<made, client, params, uris, params0, uris0, gor, crashed>>

Delete(u) ==
    LET args  == Args("Delete", u, "", Nil)
        URL   == GetURL(client[1], uris[u])
        built == NewRequest("DELETE", URL, "")
    IN  /\ IF built.err # "nil"
           THEN call' = args @@ NoDispatch(built.err)
           ELSE \E r \in DispatchRequest(client[1], built.request[1]) :
                    call' = args @@ [r EXCEPT !.body = Nil]
        /\ UNCHANGED <<made, client, params, uris, params0, uris0, gor, crashed>>

----------------------------------------------------------------------------
(* Spec: sequential verb calls on a constructed Client *)

\* a factory call: its arguments and what it returned
FactoryCall(fn, BaseURL, apiKey) ==
    [fn |-> fn, BaseURL |-> BaseURL, apiKey |-> apiKey] @@
    (IF fn = "NewAnonymousClient"
     THEN NewAnonymousClient(BaseURL)
     ELSE NewAuthenticatedClient(BaseURL, apiKey))

\* the API key of the authenticated client of Spec and ConcSpec
SomeKey == <<"a", ":", "b", ":", "b">>

NoCall ==
    [verb |-> "none", uri |-> "u1", op |-> "", params |-> Nil,
     paramsIn |-> EmptyValues, uriIn |-> [Scheme |-> "", Host |-> "", Path |-> "", RawQuery |-> ""]]
    @@ NoDispatch("nil")

Idle == [g \in 1..NumGoroutines |-> [pc |-> "idle"]]

Init ==
    /\ made \in {FactoryCall("NewAnonymousClient", b, <<>>) : b \in BaseStrings}
                \cup {FactoryCall("NewAuthenticatedClient", b, SomeKey) : b \in BaseStrings}
    /\ made.err = "nil"
    /\ client = made.client
    /\ params \in [{"p1"} -> AllValues]
    /\ uris \in [UriIds -> URLSet]
    /\ params0 = params
    /\ uris0 = uris
    /\ call = NoCall
    /\ gor = Idle
    /\ crashed = FALSE

Next ==
    \/ \E u \in UriIds, operation \in Operations, p \in (DOMAIN params) \cup {Nil} :
           Get(u, operation, p)
    \/ \E u \in UriIds, operation \in Operations, p \in DOMAIN params :
           Post(u, operation, p)
    \/ \E u \in UriIds, p \in DOMAIN params : Put(u, p)
    \/ \E u \in UriIds : Delete(u)

Spec == Init /\ [][Next]_vars

----------------------------------------------------------------------------
(* FactorySpec: the client factories on bounded inputs *)

NoFactoryCall ==
    [fn |-> "none", BaseURL |-> "", apiKey |-> <<>>, client |-> <<>>, err |-> "nil"]

FactoryInit ==
    /\ made = NoFactoryCall
    /\ client = <<>>
    /\ params = <<>>
    /\ uris = <<>>
    /\ params0 = <<>>
    /\ uris0 = <<>>
    /\ call = NoCall
    /\ gor = Idle
    /\ crashed = FALSE

CallNewAnonymousClient(BaseURL) ==
    /\ made' = FactoryCall("NewAnonymousClient", BaseURL, <<>>)
    /\ client' = made'.client
    /\ UNCHANGED <<params, uris, params0, uris0, call, gor, crashed>>

CallNewAuthenticatedClient(BaseURL, apiKey) ==
    /\ made' = FactoryCall("NewAuthenticatedClient", BaseURL, apiKey)
    /\ client' = made'.client
    /\ UNCHANGED <<params, uris, params0, uris0, call, gor, crashed>>

FactoryNext ==
    \/ \E b \in BaseStrings : CallNewAnonymousClient(b)
    \/ \E b \in BaseStrings, k \in ApiKeys : CallNewAuthenticatedClient(b, k)

FactorySpec == FactoryInit /\ [][FactoryNext]_vars

----------------------------------------------------------------------------
(* ConcSpec: goroutines running Get on one shared Client, against a server *)
(* that answers 2xx. One step per access to the shared objects.            *)

Goroutines == 1..NumGoroutines

\* the server of ConcSpec answers every request with 200 and a body
Answer2xx == [transportErr |-> FALSE, StatusCode |-> 200, Body |-> "data", readErr |-> FALSE]

\* the parameters the callers of ConcSpec build: none holds the reserved key
ConcValues == {v \in AllValues : "op" \notin DOMAIN v}

\* the resource URLs of ConcSpec: those a request can be built for
ConcURLs == {u \in URLSet : NewRequest("GET", GetURL(made.client[1], u), Nil).err = "nil"}

ConcInit ==
    /\ made \in {FactoryCall("NewAnonymousClient", "http://maas/api/", <<>>),
                 FactoryCall("NewAuthenticatedClient", "http://maas/api/", SomeKey)}
    /\ client = made.client
    /\ params \in [ParamIds -> ConcValues]
    /\ uris \in [UriIds -> ConcURLs]
    /\ params0 = params
    /\ uris0 = uris
    /\ call = NoCall
    /\ gor = Idle
    /\ crashed = FALSE

\* goroutine g calls client.Get(uris[u], operation, params[p])
GetStart(g, u, operation, p) ==
    /\ ~crashed
    /\ gor[g].pc = "idle"
    /\ gor' = [gor EXCEPT ![g] = [pc |-> "check", uri |-> u, op |-> operation, params |-> p]]
    /\ UNCHANGED <<made, client, params, uris, params0, uris0, call, crashed>>

\* line 44-48: the read of parameters["op"]
GetCheck(g) ==
    /\ ~crashed
    /\ gor[g].pc = "check"
    /\ gor' = [gor EXCEPT ![g] =
                  IF ReservedCheck(params[gor[g].params])
                  THEN gor[g] @@ [pc |-> "done"] @@ NoDispatch("ReservedParameter")
                  ELSE [gor[g] EXCEPT !.pc = "set"]]
    /\ UNCHANGED <<made, client, params, uris, params0, uris0, call, crashed>>

\* line 49-51: the write of parameters["op"]
GetSet(g) ==
    /\ ~crashed
    /\ gor[g].pc = "set"
    /\ params' = [params EXCEPT ![gor[g].params] = GetParameters(@, gor[g].op)]
    /\ gor' = [gor EXCEPT ![g].pc = "encode"]
    /\ UNCHANGED <<made, client, uris, params0, uris0, call, crashed>>

\* line 52-57: the read of the whole map by Encode, and the request
GetEncode(g) ==
    /\ ~crashed
    /\ gor[g].pc = "encode"
    /\ LET queryUrl == [GetURL(client[1], uris[gor[g].uri])
                           EXCEPT !.RawQuery = Encode(params[gor[g].params])]
           built    == NewRequest("GET", queryUrl, Nil)
       IN  gor' = [gor EXCEPT ![g] =
                      IF built.err # "nil"
                      THEN gor[g] @@ [pc |-> "done"] @@ NoDispatch(built.err)
                      ELSE [pc |-> "dispatch", request |-> built.request] @@ gor[g]]
    /\ UNCHANGED <<made, client, params, uris, params0, uris0, call, crashed>>

\* line 58: dispatchRequest, and the return
GetDispatch(g) ==
    /\ ~crashed
    /\ gor[g].pc = "dispatch"
    /\ \E ok \in SignOutcomes(client[1].Signer) :
           gor' = [gor EXCEPT ![g] =
                      [pc |-> "done"]
                      @@ DispatchOutcome(client[1], gor[g].request[1], ok, Answer2xx)
                      @@ gor[g]]
    /\ UNCHANGED <<made, client, params, uris, params0, uris0, call, crashed>>

\* whether goroutine g is about to read or write the url.Values object p
AccessesMap(g, p) ==
    /\ gor[g].pc \in {"check", "set", "encode"}
    /\ gor[g].params = p

WritesMap(g, p) ==
    /\ gor[g].pc = "set"
    /\ gor[g].op # ""
    /\ gor[g].params = p

\* two goroutines access one map at once, one of them writing: Go's runtime
\* may detect it and abort the process ("concurrent map writes", "concurrent
\* map read and map write")
MapRace ==
    /\ ~crashed
    /\ \E g \in Goroutines, h \in Goroutines, p \in ParamIds :
           g # h /\ WritesMap(g, p) /\ AccessesMap(h, p)
    /\ crashed' = TRUE
    /\ UNCHANGED <<made, client, params, uris, params0, uris0, call, gor>>

ConcNext ==
    \/ \E g \in Goroutines, u \in UriIds, operation \in Operations, p \in ParamIds :
           GetStart(g, u, operation, p)
    \/ \E g \in Goroutines : GetCheck(g)
    \/ \E g \in Goroutines : GetSet(g)
    \/ \E g \in Goroutines : GetEncode(g)
    \/ \E g \in Goroutines : GetDispatch(g)
    \/ MapRace

ConcSpec == ConcInit /\ [][ConcNext]_vars

----------------------------------------------------------------------------
(* Properties *)

\* number of occurrences of e in the sequence of events evs
Count(evs, e) == Cardinality({i \in 1..Len(evs) : evs[i] = e})

\* the query string "op=<operation>" for the operations of the model
OpQuery(operation) == IF operation = "list" THEN "op=list" ELSE "op="

\* number of colons of an apiKey
Colons(k) == Cardinality({i \in 1..Len(k) : k[i] = ":"})

\* C1: a Get whose parameters hold the key "op", whatever is stored under it,
\* returns the reserved-parameter error with no body and makes no network call.
C1_GetRejectsReservedKey ==
    (call.verb = "Get" /\ "op" \in DOMAIN call.paramsIn)
        => /\ call.err = "ReservedParameter"
           /\ call.body = Nil
           /\ Count(call.events, "do") = 0

\* C2: when the exchange of a verb call completes with status s (a response
\* was received and its body read), the error is nil exactly when
\* 200 <= s <= 299; Get, Post and Put return the server's bytes whether the
\* status is 2xx or not, and Delete returns no body.
C2_StatusClassification ==
    (call.verb # "none" /\ call.response # <<>> /\ ~call.response[1].readErr)
        => LET s == call.response[1].StatusCode
           IN  /\ (call.err = "nil") <=> (200 <= s /\ s <= 299)
               /\ call.err \in {"nil", "Status"}
               /\ call.verb \in {"Get", "Post", "Put"} => call.body = call.response[1].Body
               /\ call.verb = "Delete" => call.body = Nil

C2_Witness ==
    /\ call.verb = "Get"
    /\ call.response # <<>>
    /\ call.response[1].StatusCode = 299
    /\ call.err = "nil"
    /\ call.body = "data"

\* C3: when the signer reports failure for the request, the verb call returns
\* an error to the caller.
C3_SignFailureReturned ==
    (call.verb # "none" /\ call.signed = "failed") => call.err # "nil"

\* C4: NewAuthenticatedClient returns the API-key error and no Client for
\* every apiKey that does not hold exactly two colons, whatever the base
\* address; for an apiKey f1:f2:f3 and a base address that parses it returns
\* a Client whose token is (f1, "", f2, f3).
C4_ApiKeyFields ==
    made.fn = "NewAuthenticatedClient"
        => /\ Colons(made.apiKey) # 2
                => (made.client = <<>> /\ made.err = "InvalidAPIKey")
           /\ (Colons(made.apiKey) = 2 /\ made.BaseURL # ":bad")
                => /\ made.err = "nil"
                   /\ made.client # <<>>
                   /\ LET t == made.client[1].Signer.token
                      IN  /\ t.ConsumerSecret = <<>>
                          /\ made.apiKey = t.ConsumerKey \o <<":">> \o t.TokenKey
                                               \o <<":">> \o t.TokenSecret
                          /\ Colons(t.ConsumerKey) = 0
                          /\ Colons(t.TokenKey) = 0
                          /\ Colons(t.TokenSecret) = 0
           /\ (Colons(made.apiKey) = 2 /\ made.BaseURL = ":bad")
                => (made.client = <<>> /\ made.err = "ParseError")

C4_Witness ==
    /\ made.fn = "NewAuthenticatedClient"
    /\ made.err = "nil"
    /\ made.apiKey = <<"a", ":", "b", ":">>
    /\ made.client[1].Signer.token.TokenKey = <<"b">>
    /\ made.client[1].Signer.token.TokenSecret = <<>>

OwnOutcome(g) ==
    /\ gor[g].err = "nil"
    /\ gor[g].request[1].URL.RawQuery
           = Encode(GetParameters(params0[gor[g].params], gor[g].op))

\* Get calls that are each passed a parameters object of their own do not
\* interfere: the runtime does not abort and every returned call has its own
\* outcome.
ConcDistinctParametersIndependent ==
    (\A g, h \in Goroutines :
         (g # h /\ gor[g].pc # "idle" /\ gor[h].pc # "idle")
             => gor[g].params # gor[h].params)
        => /\ ~crashed
           /\ \A g \in Goroutines : gor[g].pc = "done" => OwnOutcome(g)

\* C6: concurrent Get calls through one Client against a server answering
\* 2xx all succeed, each with the query string of its own parameters and
\* operation, and the Client is not written.
C6_ConcurrentGetsIndependent ==
    /\ client = made.client
    /\ \A g \in Goroutines : gor[g].pc = "done" => OwnOutcome(g)

\* C7: the request Post sends has method POST, the query op=<operation> in
\* place of whatever query the resource URL had, the form-encoding of the
\* caller's parameters as its body, and the form content type.
C7_PostRequest ==
    (call.verb = "Post" /\ call.request # <<>>)
        => LET r == call.request[1]
           IN  /\ r.Method = "POST"
               /\ r.URL.RawQuery = OpQuery(call.op)
               /\ r.Body = Encode(call.paramsIn)
               /\ call.paramsIn = EmptyValues => r.Body = ""
               /\ call.paramsIn = [key \in {"k"} |-> <<"a b">>] => r.Body = "k=a+b"
               /\ r.ContentType = "application/x-www-form-urlencoded"

C7_Witness ==
    /\ call.verb = "Post"
    /\ call.op = "list"
    /\ call.uriIn.RawQuery = "old=1"
    /\ call.request # <<>>
    /\ call.request[1].URL.RawQuery = "op=list"
    /\ call.request[1].Body = "k=a+b"

\* C8: a verb call that obtained a response returns with the response body
\* read to the end and closed.
C8_BodyDrainedAndClosed ==
    (call.verb # "none" /\ call.response # <<>>)
        => (call.respBody = "drained" /\ call.closed)

\* C9: a Get with a non-empty operation that gets past the reserved-parameter
\* test leaves op=<operation> in the caller's parameters; nothing else writes
\* the caller's parameters (a Get with an empty operation, a rejected Get and
\* the other verbs leave them as they are); and a Get that follows on the same
\* parameters object is rejected without a network call.
C9_GetWritesCallerParameters ==
    /\ [](  (call.verb = "Get" /\ call.op # "" /\ call.params # Nil
                 /\ call.err # "ReservedParameter")
            => params[call.params] = [key \in (DOMAIN call.paramsIn) \cup {"op"} |->
                                         IF key = "op" THEN <<call.op>>
                                         ELSE call.paramsIn[key]] )
    /\ [][ /\ params' # params
               => (call'.verb = "Get" /\ call'.op # "" /\ call'.params # Nil)
           /\ (call.verb = "Get" /\ call.op # "" /\ call.params # Nil
                   /\ call'.verb = "Get" /\ call'.params = call.params)
               => (call'.err = "ReservedParameter" /\ call'.events = <<>>) ]_vars

C9_Witness ==
    /\ call.verb = "Get"
    /\ call.params # Nil
    /\ call.err = "ReservedParameter"
    /\ call.events = <<>>
    /\ "op" \notin DOMAIN params0[call.params]

\* C10: only Post writes the caller's URL object, and what it writes is the
\* query op=<operation>, which is still there after Post returns; a Put or a
\* Delete that is then passed the same object sends that query.
C10_PostWritesCallerURL ==
    /\ [](  call.verb = "Post"
            => uris[call.uri] = [call.uriIn EXCEPT !.RawQuery = OpQuery(call.op)] )
    /\ [](  (call.verb \in {"Put", "Delete"} /\ call.request # <<>>
                 /\ uris[call.uri] # uris0[call.uri])
            => /\ call.request[1].URL.RawQuery = uris[call.uri].RawQuery
               /\ call.request[1].URL.RawQuery \in {OpQuery(o) : o \in Operations} )
    /\ [][ uris' # uris => call'.verb = "Post" ]_vars

C10_Witness ==
    /\ call.verb = "Put"
    /\ call.request # <<>>
    /\ uris0[call.uri].RawQuery = "old=1"
    /\ call.request[1].URL.RawQuery = "op=list"

====
